---- MODULE Spec2Model ----
(***************************************************************************)
(* Model of the two Conan recipes of cmake-package-builder:                *)
(*   conanfile.py               the package recipe CMakePackageBuilderConan *)
(*   test_package/conanfile.py  the consumer recipe                        *)
(*                              CMakePackageBuilderTestConan               *)
(* The recipes are hooks called by the package manager.  A hook body is a  *)
(* straight line of calls to external tools; Python runs them one after    *)
(* the other, each call blocks until the tool returns, and an exception of *)
(* a tool leaves the hook (no try/except anywhere in the recipes).         *)
(***************************************************************************)
EXTENDS Integers, Sequences, FiniteSets, TLC

VARIABLES
    tree,        \* the source tree: the set of paths of the recipe folder under version control
    artifacts,   \* files earlier runs left in the recipe folder (test_package build output)
    cache,       \* package references present in the local cache
    run,         \* number of runs started
    kind,        \* "none" | "create" (conan create) | "test" (conan test)
    host,        \* platform of the Python process of this run: "posix" | "nt"
    settings,    \* [os, compiler, build_type, arch] of this run
    cliVersion,  \* the version given on the command line of this run, or "none"
    ref,         \* [name, version] of the package of this run
    pc,          \* the hook the package manager is in
    ip,          \* index of the next statement of the hook's body
    active,      \* external steps in progress
    events,      \* this run's log of external steps: call, ok, raise
    status,      \* packaging run: "none" | "running" | "succeeded" | "failed"
    error,       \* the error the packaging run ended with, or "none"
    tstatus,     \* test run: "none" | "running" | "succeeded" | "failed"
    terror,      \* the error the test run ended with, or "none"
    resolved,    \* whether the test recipe's requirement resolved in this run
    requires,    \* the references the test recipe required
    folders,     \* what layout() set: the build folder
    exported,    \* the files this run exported: path -> bytes
    pkgFolder,   \* files the install step put into the package folder
    cpp_info,    \* attributes of self.cpp_info the recipe assigned
    properties,  \* properties the recipe set with cpp_info.set_property
    expLog,      \* the export of every run that exported, oldest first
    pubLog       \* what every evaluation of package_info published, oldest first

vars == <<tree, artifacts, cache, run, kind, host, settings, cliVersion, ref, pc, ip,
          active, events, status, error, tstatus, terror, resolved, requires, folders,
          exported, pkgFolder, cpp_info, properties, expLog, pubLog>>

\* ------------------------------------------------------------------ bounds

MaxRuns == 2

\* ------------------------------------------------------------ input spaces

Hosts == {"posix", "nt"}
Versions == {"1.0.0"}
Errors == {"ConanException", "CalledProcessError"}

\* Two settings that differ in every one of os, compiler, build_type, arch.
AllSettings ==
    { [os |-> "Linux", compiler |-> "gcc", build_type |-> "Release", arch |-> "x86_64"],
      [os |-> "Windows", compiler |-> "msvc", build_type |-> "Debug", arch |-> "armv8"] }

\* Paths are sequences of components.
CoreFiles ==
    { <<"conanfile.py">>, <<"CMakeLists.txt">>, <<"LICENSE">>, <<"README.md">>,
      <<"cmake", "PackageBuilder.cmake">>,
      <<"test_package", "conanfile.py">>, <<"test_package", "CMakeLists.txt">> }

OptionalFiles ==
    { <<"cmake", "templates", "Config.cmake.in">>,
      <<"project-config", "ProjectConfig.cmake">> }

Trees == { CoreFiles \cup S : S \in SUBSET OptionalFiles }

\* The bytes of a file of the source tree, and of a generated file.
Bytes(p) == <<"bytes", p>>
Generated(p) == <<"generated", p>>

EmptyMap == [x \in {} |-> x]

\* ------------------------------------------------- conanfile.py attributes

\* (an exports_sources that takes the whole recipe folder)
exports_sources_all == << <<"*">> >>
\* (an exports_sources without the license file)
exports_sources_no_license ==
    << <<"CMakeLists.txt">>, <<"cmake", "*">>, <<"project-config", "*">> >>
exports_sources ==
    << <<"CMakeLists.txt">>, <<"cmake", "*">>, <<"project-config", "*">>, <<"LICENSE">> >>

\* (a recipe without its license attribute)
recipe_no_license ==
    [ name |-> "cmake-package-builder",
      author |-> "TNT Coders <tnt-coders@googlegroups.com>",
      url |-> "https://github.com/tnt-coders/cmake-package-builder",
      description |-> "CMake utility functions for simplified project setup/installation",
      package_type |-> "build-scripts",
      settings |-> <<"os", "compiler", "build_type", "arch">>,
      exports_sources |-> exports_sources ]
recipe ==
    [ name |-> "cmake-package-builder",
      license |-> "MIT",
      author |-> "TNT Coders <tnt-coders@googlegroups.com>",
      url |-> "https://github.com/tnt-coders/cmake-package-builder",
      description |-> "CMake utility functions for simplified project setup/installation",
      package_type |-> "build-scripts",
      settings |-> <<"os", "compiler", "build_type", "arch">>,
      exports_sources |-> exports_sources ]

\* ------------------------------------------------------------- hook bodies

\* (a generate() that emits the dependency files first)
generate_body_swapped == <<"CMakeDeps", "CMakeToolchain">>
generate_body == <<"CMakeToolchain", "CMakeDeps">>
\* (a build() that calls cmake.build() before cmake.configure())
build_body_swapped == <<"build", "configure">>
build_body == <<"configure", "build">>
package_body == <<"install">>

test_generators == <<"CMakeDeps", "CMakeToolchain">>
\* (a test recipe whose build() also calls cmake.build())
test_build_body_builds == <<"configure", "build">>
test_build_body == <<"configure">>

\* ----------------------------------------------------------- path strings

\* os.sep of the platform the recipe runs on.
Separator(h) == IF h = "nt" THEN "\\" ELSE "/"

\* os.path.join of relative components: the components with the platform's
\* separator between them (a path string, as a sequence of tokens).
RECURSIVE Join(_, _)
Join(parts, sep) ==
    IF Len(parts) = 0 THEN << >>
    ELSE IF Len(parts) = 1 THEN << parts[1] >>
    ELSE << parts[1], sep >> \o Join(Tail(parts), sep)

\* The directory a path string names on platform h: its components.  "/" separates
\* on both platforms, "\\" on nt only.
RECURSIVE Components(_, _)
Components(str, h) ==
    IF Len(str) = 0 THEN << >>
    ELSE IF str[1] = "/" \/ (h = "nt" /\ str[1] = "\\") THEN Components(Tail(str), h)
    ELSE << str[1] >> \o Components(Tail(str), h)

\* ------------------------------------------------------------------ export

\* fnmatch of a relative path against a pattern of exports_sources: a pattern
\* without wildcard matches that path only; a trailing * matches whatever follows
\* the directory prefix, further directory levels included.
Match(path, pat) ==
    IF pat[Len(pat)] = "*"
    THEN /\ Len(path) >= Len(pat)
         /\ \A i \in 1 .. (Len(pat) - 1) : path[i] = pat[i]
    ELSE path = pat

\* The files of the recipe folder: the source tree and what earlier runs left.
Folder == [p \in tree \cup artifacts |-> IF p \in tree THEN Bytes(p) ELSE Generated(p)]

\* The copy of every file of the folder that matches a pattern.
Export(folder, patterns) ==
    [p \in {q \in DOMAIN folder : \E i \in 1 .. Len(patterns) : Match(q, patterns[i])}
        |-> folder[p]]

\* ----------------------------------------------------------------- install

\* Where the install rules of CMakeLists.txt put the generated config file.
InstallDestination == <<"lib", "cmake", "PackageBuilder">>
InstalledFiles == { InstallDestination \o <<"PackageBuilderConfig.cmake">> }

\* -------------------------------------------------------------------- Init

NoRef == [name |-> "none", version |-> "none"]
NoSettings == [os |-> "Linux", compiler |-> "gcc", build_type |-> "Release", arch |-> "x86_64"]

Init ==
    /\ tree \in Trees
    /\ artifacts = {}
    /\ cache = {}
    /\ run = 0
    /\ kind = "none"
    /\ host = "posix"
    /\ settings = NoSettings
    /\ cliVersion = "none"
    /\ ref = NoRef
    /\ pc = "idle"
    /\ ip = 1
    /\ active = {}
    /\ events = << >>
    /\ status = "none"
    /\ error = "none"
    /\ tstatus = "none"
    /\ terror = "none"
    /\ resolved = FALSE
    /\ requires = {}
    /\ folders = EmptyMap
    /\ exported = EmptyMap
    /\ pkgFolder = {}
    /\ cpp_info = EmptyMap
    /\ properties = EmptyMap
    /\ expLog = << >>
    /\ pubLog = << >>

\* ------------------------------------------------------ the package manager

\* What a new run starts from: nothing of the previous run but the recipe folder,
\* the cache and the logs.
Fresh(k, h, s, v) ==
    /\ run < MaxRuns
    /\ pc \in {"idle", "done"}
    /\ run' = run + 1
    /\ kind' = k
    /\ host' = h
    /\ settings' = s
    /\ cliVersion' = v
    /\ ip' = 1
    /\ active' = {}
    /\ events' = << >>
    /\ error' = "none"
    /\ terror' = "none"
    /\ resolved' = FALSE
    /\ requires' = {}
    /\ folders' = EmptyMap
    /\ exported' = EmptyMap
    /\ pkgFolder' = {}
    /\ cpp_info' = EmptyMap
    /\ properties' = EmptyMap
    /\ UNCHANGED <<tree, artifacts, cache, expLog, pubLog>>

\* conan create . [--version v]
StartCreate ==
    \E h \in Hosts, s \in AllSettings, v \in Versions \cup {"none"} :
        /\ Fresh("create", h, s, v)
        /\ ref' = NoRef
        /\ pc' = "export"
        /\ status' = "running"
        /\ tstatus' = "none"

\* conan test test_package name/v
StartTest ==
    \E h \in Hosts, s \in AllSettings, v \in Versions :
        /\ Fresh("test", h, s, v)
        /\ ref' = [name |-> recipe.name, version |-> v]
        /\ pc' = "test_requirements"
        /\ status' = "none"
        /\ tstatus' = "running"

\* The version of the reference: the recipe's when it declares one, else the
\* command line's.
Version == IF "version" \in DOMAIN recipe THEN recipe["version"] ELSE cliVersion

\* The export of the recipe and of its exports_sources.  A reference without a
\* version cannot be exported.
export ==
    /\ pc = "export"
    /\ IF Version = "none"
       THEN /\ status' = "failed"
            /\ error' = "MissingVersion"
            /\ pc' = "done"
            /\ UNCHANGED <<ref, exported, expLog>>
       ELSE /\ ref' = [name |-> recipe.name, version |-> Version]
            /\ exported' = Export(Folder, recipe.exports_sources)
            /\ expLog' = Append(expLog, exported')
            /\ pc' = "layout"
            /\ UNCHANGED <<status, error>>
    /\ UNCHANGED <<tree, artifacts, cache, run, kind, host, settings, cliVersion, ip, active,
                   events, tstatus, terror, resolved, requires, folders, pkgFolder,
                   cpp_info, properties, pubLog>>

\* ---------------------------------------------------- running a hook body

\* The recipe whose hook the package manager is in.
Recipe == IF pc \in {"generate", "build", "package"} THEN "package" ELSE "test"

Event(who, step, ev, err) == [recipe |-> who, step |-> step, ev |-> ev, err |-> err]

\* The next statement of the hook's body calls its tool; the hook waits for it.
Invoke(hook, body) ==
    /\ pc = hook
    /\ active = {}
    /\ ip <= Len(body)
    /\ active' = active \cup {body[ip]}
    /\ events' = Append(events, Event(Recipe, body[ip], "call", "none"))
    /\ UNCHANGED <<tree, artifacts, cache, run, kind, host, settings, cliVersion, ref, pc, ip,
                   status, error, tstatus, terror, resolved, requires, folders, exported,
                   pkgFolder, cpp_info, properties, expLog, pubLog>>

\* The body is through: the hook returns and the package manager goes on.
Leave(hook, body, next) ==
    /\ pc = hook
    /\ active = {}
    /\ ip > Len(body)
    /\ pc' = next
    /\ ip' = 1
    /\ UNCHANGED <<tree, artifacts, cache, run, kind, host, settings, cliVersion, ref, active,
                   events, status, error, tstatus, terror, resolved, requires, folders,
                   exported, pkgFolder, cpp_info, properties, expLog, pubLog>>

\* What a step that returned has written.
InstalledBy(who, step) ==
    IF who = "package" /\ step = "install" THEN InstalledFiles ELSE {}

LeftBy(who, step) ==
    IF who = "test" /\ step = "CMakeToolchain"
    THEN { <<"test_package", "CMakeUserPresets.json">> }
    ELSE IF who = "test" /\ step = "configure"
    THEN { <<"test_package", "build", settings.build_type, "CMakeCache.txt">> }
    ELSE {}

\* The tool returns to the statement that called it; the next statement follows.
ToolReturn ==
    \E step \in active :
        /\ active' = active \ {step}
        /\ events' = Append(events, Event(Recipe, step, "ok", "none"))
        /\ ip' = ip + 1
        /\ pkgFolder' = pkgFolder \cup InstalledBy(Recipe, step)
        /\ artifacts' = artifacts \cup LeftBy(Recipe, step)
        /\ UNCHANGED <<tree, cache, run, kind, host, settings, cliVersion, ref, pc, status,
                       error, tstatus, terror, resolved, requires, folders, exported,
                       cpp_info, properties, expLog, pubLog>>

\* (a recipe that wraps its calls in try/except and goes on to the next statement)
ToolRaise_swallowed ==
    \E step \in active, e \in Errors :
        /\ active' = active \ {step}
        /\ events' = Append(events, Event(Recipe, step, "raise", e))
        /\ ip' = ip + 1
        /\ UNCHANGED <<tree, artifacts, cache, run, kind, host, settings, cliVersion, ref, pc,
                       status, error, tstatus, terror, resolved, requires, folders, exported,
                       pkgFolder, cpp_info, properties, expLog, pubLog>>

\* The tool raises.  Nothing in the recipes catches: the exception leaves the hook
\* and ends the run with the tool's error.
ToolRaise ==
    \E step \in active, e \in Errors :
        /\ active' = active \ {step}
        /\ events' = Append(events, Event(Recipe, step, "raise", e))
        /\ pc' = "done"
        /\ IF Recipe = "package"
           THEN status' = "failed" /\ error' = e /\ UNCHANGED <<tstatus, terror>>
           ELSE tstatus' = "failed" /\ terror' = e /\ UNCHANGED <<status, error>>
        /\ UNCHANGED <<tree, artifacts, cache, run, kind, host, settings, cliVersion, ref, ip,
                       resolved, requires, folders, exported, pkgFolder, cpp_info,
                       properties, expLog, pubLog>>

\* cmake_layout(self): the build folder of the settings.
cmake_layout == [build |-> <<"build", settings.build_type>>]

\* ------------------------------------------------------ the package recipe

layout ==
    /\ pc = "layout"
    /\ folders' = cmake_layout
    /\ pc' = "generate"
    /\ ip' = 1
    /\ UNCHANGED <<tree, artifacts, cache, run, kind, host, settings, cliVersion, ref, active,
                   events, status, error, tstatus, terror, resolved, requires, exported,
                   pkgFolder, cpp_info, properties, expLog, pubLog>>

generate == Invoke("generate", generate_body) \/ Leave("generate", generate_body, "build")

build == Invoke("build", build_body) \/ Leave("build", build_body, "package")

package == Invoke("package", package_body) \/ Leave("package", package_body, "package_info")

\* What package_info assigns: line 35 to cpp_info, lines 36-37 through set_property.
\* (a builddirs one level short of the install destination)
builddirs_short == << Join(<<"lib", "cmake">>, Separator(host)) >>
builddirs == << Join(<<"lib", "cmake", "PackageBuilder">>, Separator(host)) >>
cmake_find_mode == "config"
\* (a file name that follows the build type)
cmake_file_name_by_build_type ==
    IF settings.build_type = "Debug" THEN "PackageBuilderd" ELSE "PackageBuilder"
cmake_file_name == "PackageBuilder"

cpp_info_assigned == [builddirs |-> builddirs]
\* (a package_info that does not set cmake_file_name)
set_property_no_file_name == [cmake_find_mode |-> cmake_find_mode]
set_property == [cmake_find_mode |-> cmake_find_mode, cmake_file_name |-> cmake_file_name]

Published ==
    [host |-> host, settings |-> settings, name |-> recipe.name,
     cpp_info |-> cpp_info', properties |-> properties']

\* package_info, evaluated when the package has been created and whenever a
\* consumer uses it.  After a create the package is in the cache and its
\* test_package is run.
package_info ==
    /\ pc \in {"package_info", "dep_package_info"}
    /\ cpp_info' = cpp_info_assigned
    /\ properties' = set_property
    /\ pubLog' = Append(pubLog, Published)
    /\ ip' = 1
    /\ IF pc = "package_info"
       THEN /\ status' = "succeeded"
            /\ cache' = cache \cup {ref}
            /\ tstatus' = "running"
            /\ pc' = "test_requirements"
       ELSE /\ pc' = "test_layout"
            /\ UNCHANGED <<status, cache, tstatus>>
    /\ UNCHANGED <<tree, artifacts, run, kind, host, settings, cliVersion, ref, active, events,
                   error, terror, resolved, requires, folders, exported, pkgFolder, expLog>>

\* --------------------------------------------------------- the test recipe

requirements ==
    /\ pc = "test_requirements"
    /\ requires' = requires \cup {ref}
    /\ pc' = "resolve"
    /\ UNCHANGED <<tree, artifacts, cache, run, kind, host, settings, cliVersion, ref, ip,
                   active, events, status, error, tstatus, terror, resolved, folders,
                   exported, pkgFolder, cpp_info, properties, expLog, pubLog>>

\* The package manager resolves what the recipe requires against the cache.
resolve ==
    /\ pc = "resolve"
    /\ IF requires \subseteq cache
       THEN /\ resolved' = TRUE
            /\ pc' = "dep_package_info"
            /\ UNCHANGED <<tstatus, terror>>
       ELSE /\ resolved' = FALSE
            /\ tstatus' = "failed"
            /\ terror' = "MissingDependency"
            /\ pc' = "done"
    /\ UNCHANGED <<tree, artifacts, cache, run, kind, host, settings, cliVersion, ref, ip,
                   active, events, status, error, requires, folders, exported, pkgFolder,
                   cpp_info, properties, expLog, pubLog>>

test_layout ==
    /\ pc = "test_layout"
    /\ folders' = cmake_layout
    /\ pc' = "test_generate"
    /\ ip' = 1
    /\ UNCHANGED <<tree, artifacts, cache, run, kind, host, settings, cliVersion, ref, active,
                   events, status, error, tstatus, terror, resolved, requires, exported,
                   pkgFolder, cpp_info, properties, expLog, pubLog>>

\* generators = "CMakeDeps", "CMakeToolchain": the package manager runs them
\* before build().
test_generate ==
    Invoke("test_generate", test_generators) \/ Leave("test_generate", test_generators, "test_build")

test_build == Invoke("test_build", test_build_body) \/ Leave("test_build", test_build_body, "test")

\* test(): pass.  The test run is through.
test ==
    /\ pc = "test"
    /\ tstatus' = "succeeded"
    /\ pc' = "done"
    /\ UNCHANGED <<tree, artifacts, cache, run, kind, host, settings, cliVersion, ref, ip,
                   active, events, status, error, terror, resolved, requires, folders,
                   exported, pkgFolder, cpp_info, properties, expLog, pubLog>>

\* ------------------------------------------------------------ specification

Next ==
    \/ StartCreate
    \/ StartTest
    \/ export
    \/ layout
    \/ generate
    \/ build
    \/ package
    \/ package_info
    \/ requirements
    \/ resolve
    \/ test_layout
    \/ test_generate
    \/ test_build
    \/ test
    \/ ToolReturn
    \/ ToolRaise

Spec == Init /\ [][Next]_vars

\* ------------------------------------------------------- reading the log

ExternalSteps == {"configure", "build", "install"}

Called(who, step, i) == events[i] = Event(who, step, "call", "none")
Returned(who, step, i) == events[i] = Event(who, step, "ok", "none")
Raised(who, step, i) ==
    /\ events[i].recipe = who
    /\ events[i].step = step
    /\ events[i].ev = "raise"

ReturnedBefore(who, step, i) == \E j \in 1 .. (i - 1) : Returned(who, step, j)

\* Number of calls of a step by a recipe in this run.
CallCount(who, step) == Cardinality({i \in DOMAIN events : Called(who, step, i)})

\* The external steps the package recipe has called, in the order of the calls.
PackageCallEvents ==
    SelectSeq(events, LAMBDA e : e.recipe = "package" /\ e.ev = "call" /\ e.step \in ExternalSteps)
PackageCalls == [i \in 1 .. Len(PackageCallEvents) |-> PackageCallEvents[i].step]

IsPrefix(s, t) == Len(s) <= Len(t) /\ \A i \in 1 .. Len(s) : s[i] = t[i]

\* Calls and completions strictly alternate: every call but the last has its
\* completion right after it.
Alternates ==
    \A i \in DOMAIN events :
        IF i % 2 = 1 THEN events[i].ev = "call"
        ELSE /\ events[i].ev \in {"ok", "raise"}
             /\ events[i].step = events[i - 1].step
             /\ events[i].recipe = events[i - 1].recipe

\* --------------------------------------------------------------------- C1

\* C1: in a packaging run the package recipe's external steps run strictly one
\* after the other in the order configure, build, install: build is called only
\* after configure has returned without error, install only after build has, and
\* at no time are two steps in progress.
C1_SequentialOrder ==
    /\ Cardinality(active) <= 1
    /\ Alternates
    /\ IsPrefix(PackageCalls, <<"configure", "build", "install">>)
    /\ \A i \in DOMAIN events :
        /\ Called("package", "build", i) => ReturnedBefore("package", "configure", i)
        /\ Called("package", "install", i) => ReturnedBefore("package", "build", i)

C1_Witness ==
    /\ active = {"install"}
    /\ pc = "package"
    /\ PackageCalls = <<"configure", "build", "install">>

\* --------------------------------------------------------------------- C2

\* C2: a failure of an external step of the package recipe is fatal: the failing
\* step is the last thing the run does, the run is failed with exactly the error
\* the tool raised, each of configure, build, install is called at most once per
\* run, and exactly once each, returning without error, in a successful run.
C2_FailureIsFatal ==
    /\ \A step \in ExternalSteps : CallCount("package", step) <= 1
    /\ status = "succeeded" =>
        \A step \in ExternalSteps :
            /\ CallCount("package", step) = 1
            /\ \E i \in DOMAIN events : Returned("package", step, i)
    /\ \A i \in DOMAIN events :
        events[i].ev = "raise" =>
            /\ i = Len(events)
            /\ pc = "done"
            /\ active = {}
            /\ events[i].recipe = "package" => (status = "failed" /\ error = events[i].err)
    /\ status = "failed" =>
        /\ pc = "done"
        /\ \/ error = "MissingVersion" /\ events = << >>
           \/ /\ events # << >>
              /\ events[Len(events)].ev = "raise"
              /\ events[Len(events)].recipe = "package"
              /\ events[Len(events)].err = error

C2_Witness ==
    /\ status = "failed"
    /\ error = "CalledProcessError"
    /\ events # << >>
    /\ Raised("package", "build", Len(events))
    /\ events[Len(events)].err = "CalledProcessError"

\* -------------------------------------------------------------------- C10

\* C10: in both recipes the toolchain generator and the dependency generator have
\* both returned before configure is called; the package recipe's generate() runs
\* the toolchain generator first and the dependency generator second, and when the
\* toolchain generator fails neither the dependency generator nor configure is
\* ever called.
C10_GeneratedBeforeConfigure ==
    \A i \in DOMAIN events :
        /\ \A who \in {"package", "test"} :
            Called(who, "configure", i) =>
                /\ ReturnedBefore(who, "CMakeToolchain", i)
                /\ ReturnedBefore(who, "CMakeDeps", i)
        /\ Called("package", "CMakeDeps", i) => ReturnedBefore("package", "CMakeToolchain", i)
        /\ Raised("package", "CMakeToolchain", i) =>
            \A j \in DOMAIN events :
                /\ ~Called("package", "CMakeDeps", j)
                /\ ~Called("package", "configure", j)

C10_Witness ==
    /\ kind = "create"
    /\ \E i \in DOMAIN events : Called("package", "configure", i)
    /\ \E i \in DOMAIN events : Called("test", "configure", i)

\* --------------------------------------------------------------------- C8

TestConfigured == \E i \in DOMAIN events : Returned("test", "configure", i)

C8_ConfigureOnly ==
    /\ \A i \in DOMAIN events :
        (events[i].recipe = "test" /\ events[i].ev = "call") =>
            events[i].step \notin {"build", "install"}
    /\ pc = "test" => CallCount("test", "configure") = 1
    /\ tstatus = "succeeded" => (resolved /\ TestConfigured)
    /\ (resolved /\ TestConfigured) => tstatus \in {"running", "succeeded"}
    /\ pc = "done" => tstatus # "running"

C8_TestStepIdle ==
    pc = "test" =>
        /\ pc' = "done"
        /\ tstatus' = "succeeded"
        /\ UNCHANGED <<tree, artifacts, cache, run, kind, host, settings, cliVersion, ref, ip,
                       active, events, status, error, terror, resolved, requires, folders,
                       exported, pkgFolder, cpp_info, properties, expLog, pubLog>>

\* C8: the test recipe is a configure-only check: its build() calls configure and
\* the recipe never calls the external build or install step; test() does nothing
\* but end the run; and a test run that has ended succeeded exactly when the
\* requirement resolved and configure returned without error.
C8_SmokeCheck == [] C8_ConfigureOnly /\ [][C8_TestStepIdle]_vars

C8_Witness ==
    /\ kind = "test"
    /\ tstatus = "succeeded"
    /\ resolved
    /\ TestConfigured

\* --------------------------------------------------------------------- C3

\* package_info has been evaluated in this run.
PackageInfoRan == status = "succeeded" \/ (resolved /\ pc # "dep_package_info")

\* C3 as stated: after package_info the recipe has published a library name, a
\* CMake package name, the build directories and the find mode.
C3_FourPropertiesPublished ==
    PackageInfoRan =>
        /\ "libs" \in DOMAIN cpp_info
        /\ "cmake_file_name" \in DOMAIN properties
        /\ "builddirs" \in DOMAIN cpp_info
        /\ "cmake_find_mode" \in DOMAIN properties

\* C3 as amended: after package_info the recipe has published exactly three
\* things: the one build directory lib/cmake/PackageBuilder, the find mode config
\* and the CMake file name PackageBuilder; it assigns no library name (libs) and
\* no include directories.
C3_ThreePropertiesPublished ==
    PackageInfoRan =>
        /\ DOMAIN cpp_info = {"builddirs"}
        /\ Len(cpp_info.builddirs) = 1
        /\ Components(cpp_info.builddirs[1], host) = <<"lib", "cmake", "PackageBuilder">>
        /\ DOMAIN properties = {"cmake_find_mode", "cmake_file_name"}
        /\ properties.cmake_find_mode = "config"
        /\ properties.cmake_file_name = "PackageBuilder"

C3_Witness ==
    /\ kind = "create"
    /\ status = "succeeded"
    /\ pc = "test_requirements"
    /\ pubLog # << >>

\* --------------------------------------------------------------------- C4

\* The directory of a file.
Dir(f) == SubSeq(f, 1, Len(f) - 1)

C5_PublishedIdentical ==
    \A i, j \in DOMAIN pubLog :
        /\ pubLog[i].name = pubLog[j].name
        /\ pubLog[i].cpp_info = pubLog[j].cpp_info
        /\ pubLog[i].properties = pubLog[j].properties

\* C5 as amended: any two evaluations of package_info, whatever the settings and
\* whatever happened before, publish the same recipe name, the same find mode and
\* file name, and one build directory with the same components; the build
\* directory's string is the same on the same host platform (it is spelled with
\* the host's path separator).
C5_PublishedStable ==
    \A i, j \in DOMAIN pubLog :
        /\ pubLog[i].name = pubLog[j].name
        /\ pubLog[i].properties = pubLog[j].properties
        /\ DOMAIN pubLog[i].cpp_info = {"builddirs"}
        /\ Len(pubLog[i].cpp_info.builddirs) = 1
        /\ Components(pubLog[i].cpp_info.builddirs[1], pubLog[i].host)
             = Components(pubLog[j].cpp_info.builddirs[1], pubLog[j].host)
        /\ pubLog[i].host = pubLog[j].host => pubLog[i].cpp_info = pubLog[j].cpp_info

C5_Witness ==
    \E i, j \in DOMAIN pubLog :
        /\ pubLog[i].settings # pubLog[j].settings
        /\ pubLog[i].host # pubLog[j].host

\* --------------------------------------------------------------------- C6

\* C6: every export of the unchanged source tree yields the same files with the
\* same bytes, whatever earlier runs built, left behind or were configured with.
C6_ExportIdempotent ==
    \A i, j \in DOMAIN expLog : expLog[i] = expLog[j]

C6_Witness ==
    /\ Len(expLog) >= 2
    /\ pc = "layout"
    /\ artifacts # {}

\* --------------------------------------------------------------------- C7

\* The export of this run is through.
ExportDone == kind = "create" /\ pc # "export" /\ cliVersion # "none"

\* C7: the exported files are exactly CMakeLists.txt, LICENSE, and every file
\* below cmake/ and below project-config/ that the source tree has, each with the
\* bytes it has in the source tree; a tree without project-config/ exports as well.
C7_ExportedExactly ==
    ExportDone =>
        /\ DOMAIN exported =
             { p \in tree : \/ p = <<"CMakeLists.txt">>
                            \/ p = <<"LICENSE">>
                            \/ (Len(p) >= 2 /\ p[1] \in {"cmake", "project-config"}) }
        /\ \A p \in DOMAIN exported : exported[p] = Bytes(p)
        /\ error # "MissingVersion"
        /\ expLog # << >>
        /\ expLog[Len(expLog)] = exported

C7_Witness ==
    /\ ExportDone
    /\ pc = "layout"
    /\ artifacts # {}
    /\ \A p \in tree : p[1] # "project-config"
    /\ <<"cmake", "templates", "Config.cmake.in">> \in DOMAIN exported

\* --------------------------------------------------------------------- C9

MetadataFields == {"name", "version", "license", "author", "url", "description"}

\* C9 as stated: the recipe declares every metadata field, so that a packaging
\* run needs none from outside.
C9_AllMetadataStatic ==
    (kind = "create" /\ pc # "export") =>
        /\ MetadataFields \subseteq DOMAIN recipe
        /\ error # "MissingVersion"

\* C9 as amended: the recipe declares name, license, author, url and description
\* as static values and no version; the version of a packaging run is the one
\* given from outside, and a run given none fails at export.
C9_MetadataDeclared ==
    (kind = "create" /\ pc # "export") =>
        /\ (MetadataFields \ {"version"}) \subseteq DOMAIN recipe
        /\ "version" \notin DOMAIN recipe
        /\ IF cliVersion = "none"
           THEN status = "failed" /\ error = "MissingVersion"
           ELSE ref = [name |-> "cmake-package-builder", version |-> cliVersion]

C9_Witness ==
    /\ kind = "create"
    /\ status = "succeeded"
    /\ cliVersion = "1.0.0"
    /\ ref.version = "1.0.0"

====
